---- MODULE Spec2Model ----
(***************************************************************************)
(* Auction lifecycle of services.py: AuctionService (create_auction,       *)
(* activate_scheduled_auction, join_auction, place_bid, end_auction) and   *)
(* AuctionScheduler (start, stop, _check_expired_auctions), run as asyncio *)
(* tasks over one auction repository.  Every `await` on a repository or on *)
(* the notification service is a point where another task may run, so each *)
(* action below is the code between two awaits.                            *)
(*                                                                         *)
(* Time is counted in minutes.  An optional value (Optional[...] / None)   *)
(* is a sequence of length 0 or 1.                                         *)
(***************************************************************************)
EXTENDS Integers, Sequences, FiniteSets, TLC

\* ---------------------------------------------------------------- bounds
MaxAuctions == 3        \* number of uuid4() auction ids handed out
NumCallers == 2         \* concurrent caller tasks (chat handlers)
MaxAmount == 3          \* bid amounts are 1..MaxAmount
MaxStartPrice == 1      \* start prices are 1..MaxStartPrice
MaxHours == 1           \* duration_hours is 0..MaxHours
MaxCalls == 4           \* number of service calls the handlers make in one run
MaxTime == 61           \* the clock stops advancing at MaxTime minutes

\* ------------------------------------------------------- program constants
MinutesPerHour == 60    \* timedelta(hours=duration_hours)
BufferMinutes == 1      \* timedelta(minutes=1)

None == <<>>
Some(x) == <<x>>
IsSome(o) == o # <<>>
Val(o) == o[1]

AuctionIds == 1..MaxAuctions
Callers == 1..NumCallers
Amounts == 1..MaxAmount
StartPrices == 1..MaxStartPrice
Durations == 0..MaxHours
\* the instants at which the clock is read: around the hour marks
ClockValues == {t \in 0..MaxTime : t % MinutesPerHour <= BufferMinutes}
\* the last value of the clock: from there on time passes uncounted
LastClock == CHOOSE t \in ClockValues : \A u \in ClockValues : u <= t

\* user repository: users 1 and 2 are registered, 1 is an admin; 3 is unknown
UserIds == {1, 2, 3}
UserTable == (1 :> [user_id |-> 1, is_admin |-> TRUE]) @@ (2 :> [user_id |-> 2, is_admin |-> FALSE])
\* User.blocked: the registered users whose blocked flag is set
BlockedUsers == {2}

VARIABLES
    store,          \* auction repository: auction id -> stored Auction
    clock,          \* datetime.now(), in minutes
    uuids,          \* number of auction ids generated by uuid4()
    pc,             \* caller -> position in its current service call
    call,           \* caller -> the call's arguments, locals and outcome
    sched,          \* the scheduler task: position, locals, notifications
    running,        \* AuctionScheduler.running
    lastAccepted,   \* history: auction id -> amount of the bid persisted last (0: none)
    joined,         \* history: <<auction id, user id>> of the join_auction calls that returned True
    ncalls          \* number of service calls the handlers have made

vars == <<store, clock, uuids, pc, call, sched, running, lastAccepted, joined, ncalls>>

\* ------------------------------------------------------------ domain model
\* Auction.is_active
is_active(a) == a.status = "Active"

RECURSIVE MaxBidFrom(_, _, _)
\* scan of bids[i..] keeping the first bid with the largest amount
MaxBidFrom(bids, i, best) ==
    IF i > Len(bids) THEN best
    ELSE MaxBidFrom(bids, i + 1, IF bids[i].amount > best.amount THEN bids[i] ELSE best)

\* Auction.current_leader: the bid with the maximum amount, None without bids
current_leader(a) ==
    IF a.bids = <<>> THEN None ELSE Some(MaxBidFrom(a.bids, 2, a.bids[1]))

\* ------------------------------------------------------------ repositories
\* UserRepository.get_user
get_user(user_id) == IF user_id \in DOMAIN UserTable THEN Some(UserTable[user_id]) ELSE None

\* AuctionRepository.get_auction: a copy of the stored auction, or None
get_auction(s, auction_id) == IF auction_id \in DOMAIN s THEN Some(s[auction_id]) ELSE None

\* AuctionRepository.save_auction
save_auction(s, a) == (a.auction_id :> a) @@ s

\* AuctionRepository.update_auction: full replace of the stored auction
update_auction(s, a) == [s EXCEPT ![a.auction_id] = a]

RECURSIVE IdsSortedBy(_, _)
\* the ids of S as a sequence, ascending by key[id] (ties: ascending id)
IdsSortedBy(S, key) ==
    IF S = {} THEN <<>>
    ELSE LET m == CHOOSE x \in S : \A y \in S : key[x] < key[y] \/ (key[x] = key[y] /\ x <= y)
         IN <<m>> \o IdsSortedBy(S \ {m}, key)

\* AuctionRepository.get_active_auctions
get_active_auctions(s) ==
    LET ids == {i \in DOMAIN s : s[i].status = "Active"}
        order == IdsSortedBy(ids, [i \in ids |-> i])
    IN [k \in 1..Len(order) |-> s[order[k]]]

\* AuctionRepository.get_scheduled_auctions: ordered by start_time ascending
get_scheduled_auctions(s) ==
    LET ids == {i \in DOMAIN s : s[i].status = "Scheduled"}
        order == IdsSortedBy(ids, [i \in ids |-> s[i].start_time])
    IN [k \in 1..Len(order) |-> s[order[k]]]

\* ------------------------------------------------------ calls in progress
NoCall ==
    [op |-> "none", auction_id |-> 0, user_id |-> 0, amount |-> 0, duration_hours |-> 0,
     auction |-> None, previous_leader |-> None, seen_price |-> 0,
     result |-> None, emitted |-> <<>>]

\* the record of a call that has just been entered with these arguments
NewCall(op, auction_id, user_id, amount, duration_hours) ==
    [NoCall EXCEPT !.op = op, !.auction_id = auction_id, !.user_id = user_id,
                   !.amount = amount, !.duration_hours = duration_hours]

\* `return res`: the call's arguments and locals are dropped, its outcome is kept
Return(p, c, res) ==
    /\ pc' = [pc EXCEPT ![p] = "idle"]
    /\ call' = [call EXCEPT ![p] = [NoCall EXCEPT !.op = c.op, !.result = Some(res),
                                                  !.emitted = c.emitted]]

\* a handler that is not inside a call enters one
Enter(p) ==
    /\ pc[p] = "idle"
    /\ ncalls < MaxCalls
    /\ ncalls' = ncalls + 1

\* the call goes on to its next await with locals c
Goto(p, c, label) ==
    /\ pc' = [pc EXCEPT ![p] = label]
    /\ call' = [call EXCEPT ![p] = c]

Notification(kind, auction_id, user_id) ==
    [kind |-> kind, auction_id |-> auction_id, user_id |-> user_id]

\* ---------------------------------------------------------- create_auction
\* max((a.end_time for a in active_auctions if a.end_time), default=datetime.now())
latest_end_time(active_auctions, now) ==
    LET ends == {Val(active_auctions[k].end_time) :
                    k \in {j \in 1..Len(active_auctions) : IsSome(active_auctions[j].end_time)}}
    IN IF ends = {} THEN now ELSE CHOOSE m \in ends : \A e \in ends : e <= m

\* end_time_of with the test `duration_hours >= 0`
end_time_of_zero_is_bounded(start_time, duration_hours) ==
    IF duration_hours >= 0 THEN Some(start_time + MinutesPerHour * duration_hours) ELSE None

\* start_time + timedelta(hours=duration_hours) if duration_hours > 0 else None
end_time_of(start_time, duration_hours) ==
    IF duration_hours > 0 THEN Some(start_time + MinutesPerHour * duration_hours) ELSE None

\* new_auction without the one-minute buffer after the latest end_time
new_auction_no_buffer(auction_id, start_price, duration_hours, active_auctions, now) ==
    LET queued == active_auctions # <<>>
        start_time == IF queued THEN latest_end_time(active_auctions, now) ELSE now
    IN [auction_id |-> auction_id,
        start_price |-> start_price,
        current_price |-> start_price,
        status |-> IF queued THEN "Scheduled" ELSE "Active",
        participants |-> <<>>,
        bids |-> <<>>,
        start_time |-> start_time,
        end_time |-> end_time_of(start_time, duration_hours),
        winner_id |-> None]

\* the Auction that create_auction builds from what it read
new_auction(auction_id, start_price, duration_hours, active_auctions, now) ==
    LET queued == active_auctions # <<>>
        start_time == IF queued THEN latest_end_time(active_auctions, now) + BufferMinutes
                      ELSE now
    IN [auction_id |-> auction_id,
        start_price |-> start_price,
        current_price |-> start_price,
        status |-> IF queued THEN "Scheduled" ELSE "Active",
        participants |-> <<>>,
        bids |-> <<>>,
        start_time |-> start_time,
        end_time |-> end_time_of(start_time, duration_hours),
        winner_id |-> None]

\* create_auction up to `await save_auction`: uuid4(), get_active_auctions, Auction(...)
create_auction_read(p, start_price, duration_hours) ==
    /\ Enter(p)
    /\ uuids < MaxAuctions
    /\ LET auction_id == uuids + 1
           c == NewCall("create_auction", auction_id, 0, start_price, duration_hours)
           a == new_auction(auction_id, start_price, duration_hours,
                            get_active_auctions(store), clock)
       IN Goto(p, [c EXCEPT !.auction = Some(a)], "create_save")
    /\ uuids' = uuids + 1
    /\ UNCHANGED <<store, clock, sched, running, lastAccepted, joined>>

\* save_auction(auction); return auction_id
create_auction_save(p) ==
    /\ pc[p] = "create_save"
    /\ store' = save_auction(store, Val(call[p].auction))
    /\ Return(p, call[p], call[p].auction_id)
    /\ UNCHANGED <<clock, uuids, sched, running, lastAccepted, joined, ncalls>>

\* ---------------------------------------------- activate_scheduled_auction
\* the guard of activate_scheduled_auction on what get_auction returned
can_activate(auction) == IsSome(auction) /\ Val(auction).status = "Scheduled"

\* activate_scheduled_auction up to `await update_auction`
activate_scheduled_auction_read(p, auction_id) ==
    /\ Enter(p)
    /\ LET c == NewCall("activate_scheduled_auction", auction_id, 0, 0, 0)
           auction == get_auction(store, auction_id)
       IN IF ~can_activate(auction)
          THEN Return(p, c, FALSE)
          ELSE Goto(p, [c EXCEPT !.auction = Some([Val(auction) EXCEPT !.status = "Active"])],
                    "activate_update")
    /\ UNCHANGED <<store, clock, uuids, sched, running, lastAccepted, joined>>

\* update_auction(auction); return True
activate_scheduled_auction_update(p) ==
    /\ pc[p] = "activate_update"
    /\ store' = update_auction(store, Val(call[p].auction))
    /\ Return(p, call[p], TRUE)
    /\ UNCHANGED <<clock, uuids, sched, running, lastAccepted, joined, ncalls>>

\* ------------------------------------------------------------ join_auction
\* join_auction up to `await get_user`
join_auction_read(p, auction_id, user_id) ==
    /\ Enter(p)
    /\ LET c == NewCall("join_auction", auction_id, user_id, 0, 0)
           auction == get_auction(store, auction_id)
       IN IF ~IsSome(auction) \/ ~is_active(Val(auction))
          THEN Return(p, c, FALSE)
          ELSE Goto(p, [c EXCEPT !.auction = auction], "join_get_user")
    /\ UNCHANGED <<store, clock, uuids, sched, running, lastAccepted, joined>>

\* participants after `if user_id not in participants: participants.append(user_id)`
add_participant(participants, user_id) ==
    IF \E k \in 1..Len(participants) : participants[k] = user_id
    THEN participants
    ELSE Append(participants, user_id)

\* join_auction from get_user up to `await update_auction` (or to return)
join_auction_get_user(p) ==
    /\ pc[p] = "join_get_user"
    /\ LET c == call[p]
           a == Val(c.auction)
           members == add_participant(a.participants, c.user_id)
       IN IF ~IsSome(get_user(c.user_id))
          THEN Return(p, c, FALSE) /\ UNCHANGED joined
          ELSE IF members = a.participants
               THEN Return(p, c, TRUE) /\ joined' = joined \cup {<<c.auction_id, c.user_id>>}
               ELSE Goto(p, [c EXCEPT !.auction = Some([a EXCEPT !.participants = members])],
                         "join_update") /\ UNCHANGED joined
    /\ UNCHANGED <<store, clock, uuids, sched, running, lastAccepted, ncalls>>

\* update_auction(auction); return True
join_auction_update(p) ==
    /\ pc[p] = "join_update"
    /\ store' = update_auction(store, Val(call[p].auction))
    /\ joined' = joined \cup {<<call[p].auction_id, call[p].user_id>>}
    /\ Return(p, call[p], TRUE)
    /\ UNCHANGED <<clock, uuids, sched, running, lastAccepted, ncalls>>

\* --------------------------------------------------------------- place_bid
\* bid_rejected with the test `amount < auction.current_price`: a tie is accepted
bid_rejected_accepts_tie(auction, user_id, amount) ==
    \/ ~IsSome(auction)
    \/ ~is_active(Val(auction))
    \/ ~(\E k \in 1..Len(Val(auction).participants) : Val(auction).participants[k] = user_id)
    \/ amount < Val(auction).current_price

\* the checks of place_bid without `if user_id not in auction.participants`
bid_rejected_any_user(auction, user_id, amount) ==
    \/ ~IsSome(auction)
    \/ ~is_active(Val(auction))
    \/ amount <= Val(auction).current_price

\* the three checks place_bid makes on what get_auction returned
bid_rejected(auction, user_id, amount) ==
    \/ ~IsSome(auction)
    \/ ~is_active(Val(auction))
    \/ ~(\E k \in 1..Len(Val(auction).participants) : Val(auction).participants[k] = user_id)
    \/ amount <= Val(auction).current_price

\* apply_bid without `auction.current_price = amount`
apply_bid_keeps_price(a, user_id, amount) ==
    [a EXCEPT !.bids = Append(a.bids, [user_id |-> user_id, amount |-> amount])]

\* auction.bids.append(bid); auction.current_price = amount
apply_bid(a, user_id, amount) ==
    [a EXCEPT !.bids = Append(a.bids, [user_id |-> user_id, amount |-> amount]),
              !.current_price = amount]

\* place_bid up to `await get_user`
place_bid_read(p, auction_id, user_id, amount) ==
    /\ Enter(p)
    /\ LET c == NewCall("place_bid", auction_id, user_id, amount, 0)
           auction == get_auction(store, auction_id)
       IN IF bid_rejected(auction, user_id, amount)
          THEN Return(p, c, FALSE)
          ELSE Goto(p, [c EXCEPT !.auction = auction,
                                 !.seen_price = Val(auction).current_price], "bid_get_user")
    /\ UNCHANGED <<store, clock, uuids, sched, running, lastAccepted, joined>>

\* place_bid from get_user up to `await update_auction`
place_bid_get_user(p) ==
    /\ pc[p] = "bid_get_user"
    /\ LET c == call[p]
           a == Val(c.auction)
       IN IF ~IsSome(get_user(c.user_id))
          THEN Return(p, c, FALSE)
          ELSE Goto(p, [c EXCEPT !.previous_leader = current_leader(a),
                                 !.auction = Some(apply_bid(a, c.user_id, c.amount))],
                    "bid_update")
    /\ UNCHANGED <<store, clock, uuids, sched, running, lastAccepted, joined, ncalls>>

\* update_auction(auction)
place_bid_update(p) ==
    /\ pc[p] = "bid_update"
    /\ store' = update_auction(store, Val(call[p].auction))
    /\ lastAccepted' = [lastAccepted EXCEPT ![call[p].auction_id] = call[p].amount]
    /\ Goto(p, call[p], "bid_notify_placed")
    /\ UNCHANGED <<clock, uuids, sched, running, joined, ncalls>>

\* a check that also reports a leader overtaken by their own bid
overtakes_own_bid(previous_leader, user_id) ==
    IsSome(previous_leader)

\* `if previous_leader and previous_leader.user_id != user_id`
overtakes(previous_leader, user_id) ==
    IsSome(previous_leader) /\ Val(previous_leader).user_id # user_id

\* notify_bid_placed(auction, bid), then the overtaken check
place_bid_notify_placed(p) ==
    /\ pc[p] = "bid_notify_placed"
    /\ LET c == [call[p] EXCEPT !.emitted =
                    Append(@, Notification("bid_placed", call[p].auction_id, call[p].user_id))]
       IN IF overtakes(c.previous_leader, c.user_id)
          THEN Goto(p, c, "bid_notify_overtaken")
          ELSE Return(p, c, TRUE)
    /\ UNCHANGED <<store, clock, uuids, sched, running, lastAccepted, joined, ncalls>>

\* notify_bid_overtaken(auction, previous_leader.user_id, bid); return True
place_bid_notify_overtaken(p) ==
    /\ pc[p] = "bid_notify_overtaken"
    /\ LET c == [call[p] EXCEPT !.emitted =
                    Append(@, Notification("bid_overtaken", call[p].auction_id,
                                           Val(call[p].previous_leader).user_id))]
       IN Return(p, c, TRUE)
    /\ UNCHANGED <<store, clock, uuids, sched, running, lastAccepted, joined, ncalls>>

\* ------------------------------------------------------------- end_auction
\* a completion that records the winner and leaves the status as it is
complete_leaves_status(a) ==
    LET leader == current_leader(a)
    IN [a EXCEPT !.winner_id = IF IsSome(leader) THEN Some(Val(leader).user_id) ELSE @]

\* a completion that records no winner
complete_without_winner(a) ==
    [a EXCEPT !.status = "Completed"]

\* auction.status = COMPLETED; leader = current_leader; if leader: winner_id = leader.user_id
complete(a) ==
    LET leader == current_leader(a)
    IN [a EXCEPT !.status = "Completed",
                 !.winner_id = IF IsSome(leader) THEN Some(Val(leader).user_id) ELSE @]

\* end_auction up to `await get_user`
end_auction_read(p, auction_id, admin_id) ==
    /\ Enter(p)
    /\ LET c == NewCall("end_auction", auction_id, admin_id, 0, 0)
           auction == get_auction(store, auction_id)
       IN IF ~IsSome(auction) \/ Val(auction).status # "Active"
          THEN Return(p, c, FALSE)
          ELSE Goto(p, [c EXCEPT !.auction = auction], "end_get_user")
    /\ UNCHANGED <<store, clock, uuids, sched, running, lastAccepted, joined>>

\* a check that lets every registered user end an auction
not_admin_accepts_registered(admin) ==
    ~IsSome(admin)

\* if not admin or not admin.is_admin
not_admin(admin) ==
    ~IsSome(admin) \/ ~Val(admin).is_admin

\* end_auction from get_user up to `await update_auction`
end_auction_get_user(p) ==
    /\ pc[p] = "end_get_user"
    /\ LET c == call[p]
           admin == get_user(c.user_id)
       IN IF not_admin(admin)
          THEN Return(p, c, FALSE)
          ELSE Goto(p, [c EXCEPT !.auction = Some(complete(Val(c.auction)))], "end_update")
    /\ UNCHANGED <<store, clock, uuids, sched, running, lastAccepted, joined, ncalls>>

\* update_auction(auction)
end_auction_update(p) ==
    /\ pc[p] = "end_update"
    /\ store' = update_auction(store, Val(call[p].auction))
    /\ Goto(p, call[p], "end_notify")
    /\ UNCHANGED <<clock, uuids, sched, running, lastAccepted, joined, ncalls>>

\* notify_auction_ended(auction); return True
end_auction_notify(p) ==
    /\ pc[p] = "end_notify"
    /\ LET c == [call[p] EXCEPT !.emitted =
                    Append(@, Notification("auction_ended", call[p].auction_id, 0))]
       IN Return(p, c, TRUE)
    /\ UNCHANGED <<store, clock, uuids, sched, running, lastAccepted, joined, ncalls>>

\* -------------------------------------------------------- AuctionScheduler
\* the scheduler task between ticks, with its locals dropped
SchedAt(label, now) ==
    [pc |-> label, now |-> now, auctions |-> <<>>, next_auction |-> None,
     auction |-> None, activated |-> None, failed |-> None, emitted |-> <<>>]

\* a test that misses the minute in which the auction ends
expired_only_after(a, now) == IsSome(a.end_time) /\ now > Val(a.end_time)

\* `if auction.end_time and now >= auction.end_time`
expired(a, now) == IsSome(a.end_time) /\ now >= Val(a.end_time)

\* start(): self.running = True, and the first `while self.running`
scheduler_start ==
    /\ sched.pc = "init"
    /\ running' = TRUE
    /\ sched' = [sched EXCEPT !.pc = "tick"]
    /\ UNCHANGED <<store, clock, uuids, pc, call, lastAccepted, joined, ncalls>>

\* stop(): self.running = False
scheduler_stop ==
    /\ running
    /\ running' = FALSE
    /\ UNCHANGED <<store, clock, uuids, pc, call, sched, lastAccepted, joined, ncalls>>

\* _check_expired_auctions: get_active_auctions, now = datetime.now(), and the
\* for loop up to the first auction it has to update
tick_read ==
    /\ sched.pc = "tick"
    /\ LET due == SelectSeq(get_active_auctions(store), LAMBDA a : expired(a, clock))
       IN sched' = [SchedAt(IF due = <<>> THEN "activation_read_active" ELSE "expire_update",
                            clock) EXCEPT !.auctions = due]
    /\ UNCHANGED <<store, clock, uuids, pc, call, running, lastAccepted, joined, ncalls>>

\* the loop body up to and including update_auction(auction)
tick_expire_update ==
    /\ sched.pc = "expire_update"
    /\ LET a == complete(Head(sched.auctions))
       IN /\ store' = update_auction(store, a)
          /\ sched' = [sched EXCEPT !.pc = "expire_notify",
                                    !.auctions = <<a>> \o Tail(@)]
    /\ UNCHANGED <<clock, uuids, pc, call, running, lastAccepted, joined, ncalls>>

\* notify_auction_ended(auction), and the loop up to the next auction to update
tick_expire_notify ==
    /\ sched.pc = "expire_notify"
    /\ sched' = [sched EXCEPT
                    !.pc = IF Tail(sched.auctions) = <<>> THEN "activation_read_active"
                           ELSE "expire_update",
                    !.auctions = Tail(@),
                    !.emitted = Append(@, Notification("auction_ended",
                                                       Head(sched.auctions).auction_id, 0))]
    /\ UNCHANGED <<store, clock, uuids, pc, call, running, lastAccepted, joined, ncalls>>

\* active_auctions = get_active_auctions(); `if not active_auctions`
tick_activation_read_active ==
    /\ sched.pc = "activation_read_active"
    /\ sched' = [sched EXCEPT !.pc = IF get_active_auctions(store) = <<>>
                                     THEN "activation_read_scheduled" ELSE "sleep"]
    /\ UNCHANGED <<store, clock, uuids, pc, call, running, lastAccepted, joined, ncalls>>

\* a test that misses the minute in which the auction is to start
due_only_after(next_auction, now) == now > next_auction.start_time

\* `if now >= next_auction.start_time`
due(next_auction, now) == now >= next_auction.start_time

\* scheduled_auctions = get_scheduled_auctions(); next_auction = scheduled_auctions[0];
\* `if now >= next_auction.start_time`
tick_activation_read_scheduled ==
    /\ sched.pc = "activation_read_scheduled"
    /\ LET scheduled_auctions == get_scheduled_auctions(store)
       IN IF scheduled_auctions # <<>> /\ due(scheduled_auctions[1], sched.now)
          THEN sched' = [sched EXCEPT !.pc = "activation_get",
                                      !.next_auction = Some(scheduled_auctions[1])]
          ELSE sched' = [sched EXCEPT !.pc = "sleep"]
    /\ UNCHANGED <<store, clock, uuids, pc, call, running, lastAccepted, joined, ncalls>>

\* activate_scheduled_auction(next_auction.auction_id) up to `await update_auction`,
\* or to its `return False`; the tick drops the returned value
tick_activation_get ==
    /\ sched.pc = "activation_get"
    /\ LET auction == get_auction(store, Val(sched.next_auction).auction_id)
       IN IF ~can_activate(auction)
          THEN sched' = [sched EXCEPT !.pc = "activation_notify", !.activated = Some(FALSE)]
          ELSE sched' = [sched EXCEPT !.pc = "activation_update",
                            !.auction = Some([Val(auction) EXCEPT !.status = "Active"])]
    /\ UNCHANGED <<store, clock, uuids, pc, call, running, lastAccepted, joined, ncalls>>

\* update_auction(auction) inside activate_scheduled_auction
tick_activation_update ==
    /\ sched.pc = "activation_update"
    /\ store' = update_auction(store, Val(sched.auction))
    /\ sched' = [sched EXCEPT !.pc = "activation_notify", !.auction = None,
                              !.activated = Some(TRUE)]
    /\ UNCHANGED <<clock, uuids, pc, call, running, lastAccepted, joined, ncalls>>

\* notify_auction_started(next_auction)
tick_activation_notify ==
    /\ sched.pc = "activation_notify"
    /\ sched' = [sched EXCEPT
                    !.pc = "sleep", !.next_auction = None, !.activated = None,
                    !.emitted = Append(@, Notification("auction_started",
                                                       Val(sched.next_auction).auction_id, 0))]
    /\ UNCHANGED <<store, clock, uuids, pc, call, running, lastAccepted, joined, ncalls>>

\* update_auction or a notification raises while the tick handles an auction:
\* `except Exception as e: logging.error(...)` in start(), which ends the tick
tick_raises ==
    /\ sched.pc \in {"expire_update", "expire_notify", "activation_update", "activation_notify"}
    /\ LET handled == IF sched.pc \in {"expire_update", "expire_notify"}
                      THEN Head(sched.auctions).auction_id
                      ELSE Val(sched.next_auction).auction_id
       IN sched' = [sched EXCEPT !.pc = "sleep", !.auctions = <<>>, !.next_auction = None,
                                 !.auction = None, !.activated = None,
                                 !.failed = Some(handled)]
    /\ UNCHANGED <<store, clock, uuids, pc, call, running, lastAccepted, joined, ncalls>>

\* a loop that never looks at self.running again
scheduler_wake_ignores_flag ==
    /\ sched.pc = "sleep"
    /\ clock >= sched.now + BufferMinutes \/ clock = LastClock
    /\ sched' = SchedAt("tick", sched.now)
    /\ UNCHANGED <<store, clock, uuids, pc, call, running, lastAccepted, joined, ncalls>>

\* asyncio.sleep(60) is over, and the next `while self.running`; the clock stops
\* counting at LastClock, where a minute passes without a change of its value
scheduler_wake ==
    /\ sched.pc = "sleep"
    /\ clock >= sched.now + BufferMinutes \/ clock = LastClock
    /\ sched' = SchedAt(IF running THEN "tick" ELSE "stopped", sched.now)
    /\ UNCHANGED <<store, clock, uuids, pc, call, running, lastAccepted, joined, ncalls>>

\* ------------------------------------------------------------------- clock
\* time passes
advance_clock ==
    /\ \E t \in ClockValues : t > clock /\ clock' = t
    /\ UNCHANGED <<store, uuids, pc, call, sched, running, lastAccepted, joined, ncalls>>

\* ----------------------------------------------------------- specification
Init ==
    /\ store = <<>>
    /\ clock = 0
    /\ uuids = 0
    /\ pc = [p \in Callers |-> "idle"]
    /\ call = [p \in Callers |-> NoCall]
    /\ sched = SchedAt("init", 0)
    /\ running = FALSE
    /\ lastAccepted = [a \in AuctionIds |-> 0]
    /\ joined = {}
    /\ ncalls = 0

CallerStep(p) ==
    \/ \E sp \in StartPrices, d \in Durations : create_auction_read(p, sp, d)
    \/ create_auction_save(p)
    \/ \E a \in AuctionIds : activate_scheduled_auction_read(p, a)
    \/ activate_scheduled_auction_update(p)
    \/ \E a \in AuctionIds, u \in UserIds : join_auction_read(p, a, u)
    \/ join_auction_get_user(p)
    \/ join_auction_update(p)
    \/ \E a \in AuctionIds, u \in UserIds, m \in Amounts : place_bid_read(p, a, u, m)
    \/ place_bid_get_user(p)
    \/ place_bid_update(p)
    \/ place_bid_notify_placed(p)
    \/ place_bid_notify_overtaken(p)
    \/ \E a \in AuctionIds, u \in UserIds : end_auction_read(p, a, u)
    \/ end_auction_get_user(p)
    \/ end_auction_update(p)
    \/ end_auction_notify(p)

SchedulerStep ==
    \/ scheduler_start
    \/ scheduler_stop
    \/ tick_read
    \/ tick_expire_update
    \/ tick_expire_notify
    \/ tick_activation_read_active
    \/ tick_activation_read_scheduled
    \/ tick_activation_get
    \/ tick_activation_update
    \/ tick_activation_notify
    \/ scheduler_wake

Next ==
    \/ \E p \in Callers : CallerStep(p)
    \/ SchedulerStep
    \/ tick_raises
    \/ advance_clock

Spec == Init /\ [][Next]_vars

\* --------------------------------------------- one live auction: bidding
\* the state after create_auction has stored the first auction at time 0
InitBid ==
    /\ \E sp \in StartPrices, d \in 1..MaxHours :
          store = save_auction(<<>>, new_auction(1, sp, d, <<>>, 0))
    /\ clock = 0
    /\ uuids = 1
    /\ pc = [p \in Callers |-> "idle"]
    /\ call = [p \in Callers |-> NoCall]
    /\ sched = SchedAt("init", 0)
    /\ running = FALSE
    /\ lastAccepted = [a \in AuctionIds |-> 0]
    /\ joined = {}
    /\ ncalls = 0

BidderStep(p) ==
    \/ \E a \in AuctionIds, u \in UserIds : join_auction_read(p, a, u)
    \/ join_auction_get_user(p)
    \/ join_auction_update(p)
    \/ \E a \in AuctionIds, u \in UserIds, m \in Amounts : place_bid_read(p, a, u, m)
    \/ place_bid_get_user(p)
    \/ place_bid_update(p)
    \/ place_bid_notify_placed(p)
    \/ place_bid_notify_overtaken(p)
    \/ \E a \in AuctionIds, u \in UserIds : end_auction_read(p, a, u)
    \/ end_auction_get_user(p)
    \/ end_auction_update(p)
    \/ end_auction_notify(p)

ExpiryStep ==
    \/ scheduler_start
    \/ tick_read
    \/ tick_expire_update
    \/ tick_expire_notify
    \/ tick_activation_read_active
    \/ tick_activation_read_scheduled
    \/ scheduler_wake

NextBid ==
    \/ \E p \in Callers : BidderStep(p)
    \/ ExpiryStep
    \/ advance_clock

SpecBid == InitBid /\ [][NextBid]_vars

\* ------------------------------------- the queue of auctions: life cycle
OrganiserStep(p) ==
    \/ \E sp \in StartPrices, d \in Durations : create_auction_read(p, sp, d)
    \/ create_auction_save(p)
    \/ \E a \in AuctionIds : activate_scheduled_auction_read(p, a)
    \/ activate_scheduled_auction_update(p)
    \/ \E a \in AuctionIds, u \in UserIds : end_auction_read(p, a, u)
    \/ end_auction_get_user(p)
    \/ end_auction_update(p)
    \/ end_auction_notify(p)

NextLife ==
    \/ \E p \in Callers : OrganiserStep(p)
    \/ SchedulerStep
    \/ advance_clock

SpecLife == Init /\ [][NextLife]_vars

\* ------------------------------------------- the scheduler on a stored queue
\* the bid histories one auction can have accepted: at most two bids, each above
\* the price before it
BidHistories(start_price) ==
    LET Bids == [user_id : DOMAIN UserTable,
                 amount : {m \in Amounts : m > start_price}]
    IN {<<>>} \cup {<<b>> : b \in Bids}
              \cup {h \in {<<b, c>> : b \in Bids, c \in Bids} : h[1].amount < h[2].amount}

RECURSIVE Played(_, _)
\* the auction after the users of a bid history have joined and bid in turn
Played(a, history) ==
    IF history = <<>> THEN a
    ELSE LET before == Played(a, SubSeq(history, 1, Len(history) - 1))
             bid == history[Len(history)]
         IN apply_bid([before EXCEPT !.participants = add_participant(@, bid.user_id)],
                      bid.user_id, bid.amount)

\* the states the service leaves behind at time 0: a first auction with its
\* bids, ended by an admin or not, and possibly a second auction created behind
\* it ("queued") or in a race with it ("racing")
InitTick ==
    /\ \E sp \in StartPrices, d1 \in Durations, d2 \in Durations, ended \in BOOLEAN,
          second \in {"none", "queued", "racing"} :
        \E history \in BidHistories(sp) :
          LET first == Played(new_auction(1, sp, d1, <<>>, 0), history)
              behind == new_auction(2, sp, d2,
                                    IF second = "queued" THEN <<first>> ELSE <<>>, 0)
              s == save_auction(<<>>, IF ended THEN complete(first) ELSE first)
          IN /\ store = IF second = "none" THEN s ELSE save_auction(s, behind)
             /\ uuids = IF second = "none" THEN 1 ELSE 2
             /\ lastAccepted = [a \in AuctionIds |->
                                  IF a = 1 /\ history # <<>>
                                  THEN history[Len(history)].amount ELSE 0]
             /\ joined = {<<1, history[k].user_id>> : k \in 1..Len(history)}
    /\ clock \in ClockValues
    /\ pc = [p \in Callers |-> "idle"]
    /\ call = [p \in Callers |-> NoCall]
    /\ sched = SchedAt("init", 0)
    /\ running = FALSE
    /\ ncalls = 0

NextTick ==
    \/ SchedulerStep
    \/ advance_clock

SpecTick == InitTick /\ [][NextTick]_vars

\* ------------------------- the scheduler with a repository or notifier that raises
NextFail ==
    \/ SchedulerStep
    \/ tick_raises
    \/ advance_clock

SpecFail == InitTick /\ [][NextFail]_vars

\* ------------------------------------------ the scheduler loop under fairness
\* the steps of start(): every await of the loop returns
LoopStep ==
    \/ scheduler_start
    \/ tick_read
    \/ tick_expire_update
    \/ tick_expire_notify
    \/ tick_activation_read_active
    \/ tick_activation_read_scheduled
    \/ tick_activation_get
    \/ tick_activation_update
    \/ tick_activation_notify
    \/ scheduler_wake

\* the event loop runs the scheduler task whenever it can run and time passes;
\* stop() and failures may happen or not
\* the loop is never stopped and nothing raises
NextLive ==
    \/ LoopStep
    \/ advance_clock

SpecLive ==
    /\ InitTick
    /\ [][NextLive]_vars
    /\ WF_vars(LoopStep)
    /\ WF_vars(advance_clock)

SpecStop ==
    /\ InitTick
    /\ [][NextFail]_vars
    /\ WF_vars(LoopStep)
    /\ WF_vars(advance_clock)

\* ================================================================== claims
Count(x, seq) == Cardinality({k \in 1..Len(seq) : seq[k] = x})

ActiveIds == {a \in DOMAIN store : store[a].status = "Active"}

\* C1: in every reachable state at most one stored auction has status Active.
C1_AtMostOneActive == Cardinality(ActiveIds) <= 1

\* C2: Completed is terminal: a stored auction whose status is Completed has
\* status Completed after every step, whoever writes.
C2_CompletedIsTerminal ==
    [][\A a \in DOMAIN store :
          store[a].status = "Completed" => store'[a].status = "Completed"]_vars

\* the largest amount among the bids of a (a has bids)
MaxAmountOf(a) ==
    CHOOSE m \in {a.bids[k].amount : k \in 1..Len(a.bids)} :
        \A k \in 1..Len(a.bids) : a.bids[k].amount <= m

\* C3: every stored auction has current_price = start_price when it has no bids
\* and current_price = the maximum bid amount otherwise.
C3_PriceIsMaxBid ==
    \A a \in DOMAIN store :
        store[a].current_price =
            IF store[a].bids = <<>> THEN store[a].start_price ELSE MaxAmountOf(store[a])

\* C3 witness: a stored auction with bids whose price a concurrent place_bid has
\* written over: the bid persisted last is higher than the stored price.
C3_Witness ==
    \E a \in DOMAIN store :
        store[a].bids # <<>> /\ lastAccepted[a] > store[a].current_price

StrictlyIncreasing(bids) ==
    \A k \in 1..(Len(bids) - 1) : bids[k].amount < bids[k + 1].amount

\* C4: the bids accepted on one auction have strictly increasing amounts in the
\* order they were persisted, and the stored bids are strictly increasing.
C4_AcceptedBidsIncrease ==
    [][/\ \A p \in Callers :
             (pc[p] = "bid_update" /\ pc'[p] = "bid_notify_placed")
                => call[p].amount > lastAccepted[call[p].auction_id]
       /\ \A a \in DOMAIN store' : StrictlyIncreasing(store'[a].bids)]_vars

\* a place_bid call whose bid has been persisted: it returns True
BidAccepted(p) == pc[p] \in {"bid_notify_placed", "bid_notify_overtaken"}

\* C5: two concurrent place_bid calls on one auction that validated their amount
\* against the same current_price are never both accepted.
C5_OneWinnerPerPlateau ==
    \A p, q \in Callers :
        (p # q /\ BidAccepted(p) /\ BidAccepted(q)
              /\ call[p].auction_id = call[q].auction_id)
            => call[p].seen_price # call[q].seen_price

IsPrefix(s, t) == Len(s) <= Len(t) /\ \A k \in 1..Len(s) : s[k] = t[k]

\* C6: bids is append-only: every step leaves the stored bids of an auction a
\* prefix of its stored bids after the step.
C6_BidsAppendOnly ==
    [][\A a \in DOMAIN store : IsPrefix(store[a].bids, store'[a].bids)]_vars

\* create_auction stores the auction it built and returns its id
SavedAsBuilt(p) ==
    (pc[p] = "create_save" /\ pc'[p] = "idle")
        => /\ call[p].auction_id \in DOMAIN store'
           /\ store'[call[p].auction_id] = Val(call[p].auction)
           /\ call'[p].result = Some(call[p].auction_id)

\* C7: create_auction called while an auction A with a set end_time is Active
\* builds and stores B with status Scheduled and B.start_time >= A.end_time + 1.
C7_QueuedBehindActive ==
    [][\A p \in Callers :
          /\ (pc[p] = "idle" /\ pc'[p] = "create_save")
                => \A a \in DOMAIN store :
                      (store[a].status = "Active" /\ IsSome(store[a].end_time))
                         => /\ Val(call'[p].auction).status = "Scheduled"
                            /\ Val(call'[p].auction).start_time >= Val(store[a].end_time) + 1
          /\ SavedAsBuilt(p)]_vars

\* C7 witness: a stored Scheduled auction that starts one minute after the end
\* of a stored Active auction.
C7_Witness ==
    \E a, b \in DOMAIN store :
        /\ store[a].status = "Active" /\ IsSome(store[a].end_time)
        /\ store[b].status = "Scheduled"
        /\ store[b].start_time = Val(store[a].end_time) + 1

\* C8: create_auction called while no auction is Active builds and stores an
\* auction with status Active, start_time = now, current_price = start_price,
\* no participants, no bids, and end_time = start_time + duration, or no
\* end_time when the duration is zero.
C8_StartsImmediately ==
    [][\A p \in Callers :
          /\ (pc[p] = "idle" /\ pc'[p] = "create_save" /\ ActiveIds = {})
                => LET b == Val(call'[p].auction)
                       d == call'[p].duration_hours
                   IN /\ b.status = "Active"
                      /\ b.start_time = clock
                      /\ b.start_price = call'[p].amount
                      /\ b.current_price = call'[p].amount
                      /\ b.participants = <<>>
                      /\ b.bids = <<>>
                      /\ b.winner_id = None
                      /\ b.end_time = IF d = 0 THEN None ELSE Some(clock + 60 * d)
          /\ SavedAsBuilt(p)]_vars

\* C8 witness: create_auction has returned the id of a stored Active auction
\* without end_time.
C8_Witness ==
    \E p \in Callers :
        /\ pc[p] = "idle" /\ call[p].op = "create_auction" /\ IsSome(call[p].result)
        /\ store[Val(call[p].result)].status = "Active"
        /\ store[Val(call[p].result)].end_time = None

\* the rejections of place_bid, on the stored auction
MustReject(auction_id, user_id, amount) ==
    \/ auction_id \notin DOMAIN store
    \/ store[auction_id].status # "Active"
    \/ Count(user_id, store[auction_id].participants) = 0
    \/ amount <= store[auction_id].current_price

\* the outcome C9 asks of a step of caller p: False, nothing written, nothing emitted
RejectedCleanly(p) ==
    /\ pc'[p] = "idle"
    /\ call'[p].result = Some(FALSE)
    /\ call'[p].emitted = <<>>
    /\ store' = store

\* what every step that enters place_bid in caller p does, whatever its arguments
EntersPlaceBid(p) ==
    /\ pc[p] = "idle"
    /\ ncalls' = ncalls + 1
    /\ call'[p].op = "place_bid"
    /\ \A q \in Callers \ {p} : pc'[q] = pc[q] /\ call'[q] = call[q]

\* C9: place_bid on a missing or not Active auction, by a user who is not in
\* participants, or with amount <= current_price returns False, leaves the
\* store unchanged and emits no notification.
C9_RejectedBidChangesNothing ==
    [][\A p \in Callers :
          (EntersPlaceBid(p) /\ ~RejectedCleanly(p))
             => \A a \in AuctionIds, u \in UserIds, m \in Amounts :
                   ~(MustReject(a, u, m) /\ place_bid_read(p, a, u, m))]_vars

\* C9 witness: place_bid has returned False on an Active auction that has a
\* participant and a bid.
C9_Witness ==
    \E p \in Callers, a \in DOMAIN store :
        /\ pc[p] = "idle" /\ call[p].op = "place_bid" /\ call[p].result = Some(FALSE)
        /\ store[a].status = "Active" /\ store[a].bids # <<>>

\* C10: a user whose join_auction returned True is in participants exactly
\* once, and participants holds no id twice.
C10_JoinedExactlyOnce ==
    /\ \A j \in joined : Count(j[2], store[j[1]].participants) = 1
    /\ \A a \in DOMAIN store, u \in UserIds : Count(u, store[a].participants) <= 1

\* The auction is missing from the store or its stored status is not Active.
CannotEnd(auction_id) ==
    LET auction == get_auction(store, auction_id)
    IN ~IsSome(auction) \/ Val(auction).status # "Active"

\* The user is unknown to the user table or is not an administrator.
NotAnAdmin(user_id) ==
    user_id \notin DOMAIN UserTable \/ ~UserTable[user_id].is_admin

\* Caller p takes the first step of an end_auction call.
EntersEndAuction(p) ==
    /\ pc[p] = "idle"
    /\ ncalls' = ncalls + 1
    /\ call'[p].op = "end_auction"
    /\ \A q \in Callers \ {p} : pc'[q] = pc[q] /\ call'[q] = call[q]

\* C11: end_auction on an auction that is missing or not Active, or on behalf
\* of an unknown or non-admin user, returns False, leaves the store (status and
\* winner_id included) unchanged and emits no notification.
C11_RefusedEndChangesNothing ==
    [][\A p \in Callers :
          /\ (EntersEndAuction(p) /\ ~RejectedCleanly(p))
                => \A a \in AuctionIds, u \in UserIds :
                      ~(CannotEnd(a) /\ end_auction_read(p, a, u))
          /\ (pc[p] = "end_get_user" /\ pc'[p] # "end_get_user"
                /\ NotAnAdmin(call[p].user_id))
                => RejectedCleanly(p)]_vars

\* An end_auction call has been refused while an Active auction with bids is
\* stored.
C11_Witness ==
    \E p \in Callers :
        /\ pc[p] = "idle"
        /\ call[p].op = "end_auction"
        /\ call[p].result = Some(FALSE)
        /\ \E a \in DOMAIN store :
              store[a].status = "Active" /\ store[a].bids # <<>>

\* The auction is Completed and its winner is the user of its highest bid, or
\* absent when it has no bids.
EndedAsLed(a) ==
    /\ a.status = "Completed"
    /\ IF a.bids = <<>>
       THEN a.winner_id = None
       ELSE \E k \in 1..Len(a.bids) :
               /\ a.winner_id = Some(a.bids[k].user_id)
               /\ \A j \in 1..Len(a.bids) : a.bids[j].amount <= a.bids[k].amount

\* Caller p takes a step of the call it is in, leaving the given position.
Leaves(p, label) ==
    pc[p] = label /\ pc'[p] # label

\* C12: end_auction by an admin on an Active auction is not refused; its update
\* stores the auction as Completed with winner_id = the user of the highest bid
\* (absent without bids); it then emits exactly one auction-ended notification,
\* after the update, and returns True.
C12_AdminEndCompletes ==
    [][\A p \in Callers :
          /\ (EntersEndAuction(p) /\ pc'[p] # "end_get_user")
                => \A a \in AuctionIds, u \in UserIds :
                      ~(~CannotEnd(a) /\ end_auction_read(p, a, u))
          /\ (Leaves(p, "end_get_user") /\ ~NotAnAdmin(call[p].user_id))
                => /\ pc'[p] = "end_update"
                   /\ call'[p].emitted = <<>>
                   /\ store' = store
          /\ Leaves(p, "end_update")
                => /\ pc'[p] = "end_notify"
                   /\ call'[p].emitted = <<>>
                   /\ EndedAsLed(store'[call[p].auction_id])
                   /\ \A a \in DOMAIN store \ {call[p].auction_id} : store'[a] = store[a]
          /\ Leaves(p, "end_notify")
                => /\ pc'[p] = "idle"
                   /\ call'[p].result = Some(TRUE)
                   /\ call'[p].emitted =
                         <<Notification("auction_ended", call[p].auction_id, 0)>>
                   /\ store' = store
                   /\ EndedAsLed(Val(call[p].auction))]_vars

\* An end_auction call has returned True and the stored auction is Completed
\* with the winner of its bids.
C12_Witness ==
    \E p \in Callers :
        /\ pc[p] = "idle"
        /\ call[p].op = "end_auction"
        /\ call[p].result = Some(TRUE)
        /\ \E a \in DOMAIN store :
              store[a].bids # <<>> /\ EndedAsLed(store[a])

\* The tick the scheduler has just finished announced the start of the auction.
StartedThisTick(auction_id) ==
    \E k \in 1..Len(sched.emitted) :
        sched.emitted[k] = Notification("auction_started", auction_id, 0)

\* The scheduler is asleep after a tick in which every Active auction whose
\* end_time had passed was completed, and in which the earliest Scheduled auction
\* was activated if it was due and no Active auction remained.
SweptAtSleep ==
    sched.pc = "sleep"
       => /\ \A a \in DOMAIN store :
                (/\ store[a].status = "Active"
                 /\ store[a].end_time # None
                 /\ Val(store[a].end_time) <= sched.now)
                   => StartedThisTick(a)
          /\ (\A a \in DOMAIN store : store[a].status # "Active")
                => \A a \in DOMAIN store :
                      store[a].status = "Scheduled" => store[a].start_time > sched.now

\* What one scheduler step may change in the store: an Active auction whose
\* end_time has passed becomes Completed with the winner of its bids; a Scheduled
\* auction that is due becomes Active while no auction is Active; every other
\* auction is left as it is.
SweepStep ==
    \A a \in DOMAIN store :
        \/ store'[a] = store[a]
        \/ /\ store[a].status = "Active"
           /\ store[a].end_time # None
           /\ Val(store[a].end_time) <= sched.now
           /\ EndedAsLed(store'[a])
        \/ /\ store[a].status = "Scheduled"
           /\ store[a].start_time <= sched.now
           /\ \A b \in DOMAIN store : store[b].status # "Active"
           /\ \A b \in DOMAIN store :
                 store[b].status = "Scheduled" => store[a].start_time <= store[b].start_time
           /\ store'[a] = [store[a] EXCEPT !.status = "Active"]

\* C13: in one scheduler tick every Active auction whose end_time has passed
\* becomes Completed with winner_id = its leader's user id; if no Active auction
\* remains and the earliest Scheduled auction is due, that auction becomes
\* Active in the same tick; an Active auction without end_time or with a future
\* end_time stays Active.
C13_TickSweepsAndActivates ==
    []SweptAtSleep /\ [][SweepStep]_vars

\* A tick has completed the first auction, which has a winner, and activated the
\* second one.
C13_Witness ==
    /\ sched.pc = "sleep"
    /\ sched.emitted = <<Notification("auction_ended", 1, 0),
                         Notification("auction_started", 2, 0)>>
    /\ store[1].bids # <<>> /\ EndedAsLed(store[1])
    /\ store[2].status = "Active"

\* The auction is missing from the store or its stored status is not Scheduled.
CannotActivate(auction_id) ==
    LET auction == get_auction(store, auction_id)
    IN ~IsSome(auction) \/ Val(auction).status # "Scheduled"

\* Caller p takes the first step of an activate_scheduled_auction call.
EntersActivate(p) ==
    /\ pc[p] = "idle"
    /\ ncalls' = ncalls + 1
    /\ call'[p].op = "activate_scheduled_auction"
    /\ \A q \in Callers \ {p} : pc'[q] = pc[q] /\ call'[q] = call[q]

\* C14: activate_scheduled_auction on an auction that is missing, Active or
\* Completed returns False and leaves the store unchanged; its write on a
\* Scheduled auction returns True and changes nothing in the store but that
\* auction's status, and changes a status only from Scheduled to Active.
C14_ActivatesOnlyScheduled ==
    [][\A p \in Callers :
          /\ (EntersActivate(p) /\ ~RejectedCleanly(p))
                => \A a \in AuctionIds :
                      ~(CannotActivate(a) /\ activate_scheduled_auction_read(p, a))
          /\ Leaves(p, "activate_update")
                => /\ call'[p].result = Some(TRUE)
                   /\ store' = [store EXCEPT ![call[p].auction_id].status = "Active"]
                   /\ store[call[p].auction_id].status \in {"Scheduled", "Active"}]_vars

\* Caller p is inside a join_auction or place_bid call made for a blocked user.
ServesBlockedUser(p) ==
    /\ pc[p] # "idle"
    /\ call[p].op \in {"join_auction", "place_bid"}
    /\ call[p].user_id \in BlockedUsers

\* C15: a join_auction or place_bid call made for a user whose blocked flag is
\* set writes nothing to the store (participants, bids and current_price stay
\* as they are) and returns False.
C15_BlockedUserShutOut ==
    [][\A p \in Callers :
          (ServesBlockedUser(p) /\ pc'[p] # pc[p])
             => /\ store' = store
                /\ pc'[p] = "idle" => call'[p].result = Some(FALSE)]_vars

\* The users in the participants list of an auction.
ParticipantsOf(a) ==
    {a.participants[k] : k \in 1..Len(a.participants)}

\* C16: in every reachable state, the user of every stored bid is in the
\* participants list of the auction the bid is stored on.
C16_BiddersAreParticipants ==
    \A a \in DOMAIN store :
        \A k \in 1..Len(store[a].bids) :
            store[a].bids[k].user_id \in ParticipantsOf(store[a])

\* An auction has bids, and a join_auction write that ran concurrently with a
\* place_bid write has been replaced: a user whose join succeeded is no longer
\* in the participants list.
C16_Witness ==
    \E a \in DOMAIN store :
        /\ store[a].bids # <<>>
        /\ \E u \in DOMAIN UserTable :
              <<a, u>> \in joined /\ u \notin ParticipantsOf(store[a])

\* Auction a is over at least one buffer minute before auction b starts.
Precedes(a, b) ==
    Val(a.end_time) + BufferMinutes <= b.start_time

\* C17: the windows of queued auctions do not overlap: any two stored auctions
\* that wait in status Scheduled and both have an end_time have disjoint
\* [start_time, end_time] intervals at least one minute apart.
C17_QueuedWindowsDisjoint ==
    \A a \in DOMAIN store, b \in DOMAIN store :
        (/\ a # b
         /\ store[a].status = "Scheduled" /\ store[b].status = "Scheduled"
         /\ store[a].end_time # None /\ store[b].end_time # None)
           => Precedes(store[a], store[b]) \/ Precedes(store[b], store[a])

\* The previous leader caller p holds is the highest of the bids its copy of the
\* auction had before the new bid was appended (absent if there were none).
HoldsLeaderBeforeBid(p) ==
    LET bids == Val(call[p].auction).bids
        before == SubSeq(bids, 1, Len(bids) - 1)
    IN IF before = <<>>
       THEN call[p].previous_leader = None
       ELSE /\ call[p].previous_leader # None
            /\ \E k \in 1..Len(before) : before[k] = Val(call[p].previous_leader)
            /\ \A k \in 1..Len(before) :
                  before[k].amount <= Val(call[p].previous_leader).amount

\* A previous leader exists and is another user than the bidder.
LeaderOvertaken(p) ==
    call[p].previous_leader # None /\ Val(call[p].previous_leader).user_id # call[p].user_id

\* While a place_bid call is between its acceptance and its return, it holds
\* the leader before its bid, and it has emitted nothing before its update.
BidInFlight ==
    \A p \in Callers :
        /\ pc[p] \in {"bid_update", "bid_notify_placed", "bid_notify_overtaken"}
              => HoldsLeaderBeforeBid(p)
        /\ pc[p] \in {"bid_get_user", "bid_update"} => call[p].emitted = <<>>

\* After its update, place_bid emits bid_placed first, then bid_overtaken to the
\* previous leader exactly when there is one and it is another user, and
\* returns True.
BidNotifyStep ==
    \A p \in Callers :
        /\ Leaves(p, "bid_update")
              => pc'[p] = "bid_notify_placed" /\ call'[p].emitted = <<>>
        /\ Leaves(p, "bid_notify_placed")
              => /\ call'[p].emitted =
                       <<Notification("bid_placed", call[p].auction_id, call[p].user_id)>>
                 /\ IF LeaderOvertaken(p)
                    THEN pc'[p] = "bid_notify_overtaken"
                    ELSE pc'[p] = "idle" /\ call'[p].result = Some(TRUE)
        /\ Leaves(p, "bid_notify_overtaken")
              => /\ LeaderOvertaken(p)
                 /\ call'[p].emitted =
                       <<Notification("bid_placed", call[p].auction_id, call[p].user_id),
                         Notification("bid_overtaken", call[p].auction_id,
                                      Val(call[p].previous_leader).user_id)>>
                 /\ pc'[p] = "idle" /\ call'[p].result = Some(TRUE)

\* C18: in a successful place_bid the previous leader is the highest bid read
\* before the new bid is appended; notify_bid_placed is emitted after the update
\* is persisted and before any notify_bid_overtaken; notify_bid_overtaken is
\* emitted exactly when a previous leader exists and is another user, and is
\* addressed to that previous leader.
C18_BidNotifications ==
    []BidInFlight /\ [][BidNotifyStep]_vars

\* A place_bid call has returned True after emitting bid_placed and
\* bid_overtaken, and another has returned True after emitting bid_placed only.
C18_Witness ==
    \E p \in Callers, q \in Callers :
        /\ pc[p] = "idle" /\ call[p].op = "place_bid" /\ call[p].result = Some(TRUE)
        /\ Len(call[p].emitted) = 2 /\ call[p].emitted[2].kind = "bid_overtaken"
        /\ pc[q] = "idle" /\ call[q].op = "place_bid" /\ call[q].result = Some(TRUE)
        /\ Len(call[q].emitted) = 1

\* The scheduler emits an auction-started notification in this step.
EmitsStarted ==
    /\ Len(sched'.emitted) = Len(sched.emitted) + 1
    /\ sched'.emitted[Len(sched'.emitted)].kind = "auction_started"

\* C19: an auction-started notification is emitted only after an actual
\* Scheduled -> Active transition: a create_auction call emits none, and the
\* scheduler emits one only in a tick whose activate_scheduled_auction call
\* returned True.
C19_StartedOnlyOnActivation ==
    [][/\ EmitsStarted => sched.activated = Some(TRUE)
       /\ \A p \in Callers :
             Leaves(p, "create_save") => call'[p].emitted = <<>>]_vars

\* C20: a failure raised while the scheduler handles one auction does not stop
\* the sweep for the others: when the scheduler sleeps after a tick in which
\* handling one auction raised, every other Active auction whose end_time had
\* passed has been completed, and the earliest other Scheduled auction has been
\* activated if it was due and no Active auction remained.
C20_FailureSparesOthers ==
    (sched.pc = "sleep" /\ sched.failed # None)
       => LET Others == DOMAIN store \ {Val(sched.failed)}
          IN /\ \A a \in Others :
                   (/\ store[a].status = "Active"
                    /\ store[a].end_time # None
                    /\ Val(store[a].end_time) <= sched.now)
                      => StartedThisTick(a)
             /\ (\A a \in DOMAIN store : store[a].status # "Active")
                   => \A a \in Others :
                         store[a].status = "Scheduled" => store[a].start_time > sched.now

\* The positions of the scheduler inside a tick.
TickPositions ==
    {"tick", "expire_update", "expire_notify", "activation_read_active",
     "activation_read_scheduled", "activation_get", "activation_update",
     "activation_notify"}

\* stop() touches nothing but the flag; the loop ends only where it tests the
\* flag after a sleep, and never goes on after that; a tick begins only when
\* the flag is set and no tick is in flight.
CooperativeStep ==
    /\ (running /\ ~running')
          => sched' = sched /\ store' = store
    /\ (sched.pc # "stopped" /\ sched'.pc = "stopped")
          => sched.pc = "sleep" /\ ~running
    /\ sched.pc = "stopped" => sched'.pc = "stopped"
    /\ (sched.pc # "tick" /\ sched'.pc = "tick")
          => /\ sched.pc \in {"init", "sleep"}
             /\ running'
    /\ (sched.pc \in TickPositions /\ sched'.pc # sched.pc)
          => sched'.pc \in TickPositions \cup {"sleep"}

\* C21: stopping the scheduler is cooperative: stop() leaves a tick in flight
\* alone, the tick runs on to its sleep, no tick begins once the flag has been
\* found cleared, ticks never overlap, and after stop() the loop eventually
\* ends.
C21_CooperativeStop ==
    /\ [][CooperativeStep]_vars
    /\ (sched.pc # "init" /\ ~running) ~> (sched.pc = "stopped")
    /\ (sched.pc \in TickPositions) ~> (sched.pc = "sleep")

\* stop() has been called while a tick was between its two sweeps, and the
\* tick has gone on to activate the next auction.
C21_Witness ==
    /\ ~running
    /\ sched.pc = "activation_notify"
    /\ sched.activated = Some(TRUE)
    /\ \E k \in 1..Len(sched.emitted) : sched.emitted[k].kind = "auction_ended"

\* Every Active auction has an end_time.
AllActiveBounded ==
    \A a \in DOMAIN store : store[a].status = "Active" => store[a].end_time # None

\* The stored auction has the given status.
HasStatus(auction_id, status) ==
    auction_id \in DOMAIN store /\ store[auction_id].status = status

\* The stored auction has an end_time that the clock reaches.
EndsInTime(auction_id) ==
    /\ auction_id \in DOMAIN store
    /\ store[auction_id].end_time # None
    /\ Val(store[auction_id].end_time) <= LastClock

\* The stored auction is Scheduled with a start_time that the clock reaches.
QueuedInTime(auction_id) ==
    /\ HasStatus(auction_id, "Scheduled")
    /\ store[auction_id].start_time <= LastClock

\* C22: while the scheduler keeps ticking without a failure, time advances and
\* every Active auction has an end_time, every Scheduled auction whose
\* start_time the clock reaches eventually becomes Active with no service call,
\* and every auction whose end_time the clock reaches eventually becomes
\* Completed.
C22_QueueDrains ==
    []AllActiveBounded
       => \A a \in AuctionIds :
             /\ QueuedInTime(a) ~> HasStatus(a, "Active")
             /\ EndsInTime(a) ~> HasStatus(a, "Completed")

\* The scheduler alone has activated the queued second auction and, at its
\* end_time, completed it.
C22_Witness ==
    /\ AllActiveBounded
    /\ HasStatus(1, "Completed")
    /\ HasStatus(2, "Completed")
    /\ store[2].start_time > 0

\* C23: in every reachable state a stored auction has a winner_id only if its
\* status is Completed, and the winner_id is then the user of the highest of
\* its stored bids.
C23_WinnerOnlyWhenCompleted ==
    \A a \in DOMAIN store :
        store[a].winner_id # None
           => store[a].bids # <<>> /\ EndedAsLed(store[a])

\* An end_auction call has returned True, and a place_bid that had read the
\* auction before the completion has written after it: the auction is stored
\* Active again, with that bid and without a winner.
C23_Witness ==
    \E p \in Callers, a \in DOMAIN store :
        /\ pc[p] = "idle" /\ call[p].op = "end_auction" /\ call[p].result = Some(TRUE)
        /\ store[a].status = "Active"
        /\ store[a].bids # <<>>
        /\ store[a].bids[Len(store[a].bids)].amount = lastAccepted[a]
        /\ store[a].winner_id = None

====
